---------------------------- MODULE Spec2Model ----------------------------
(* A model of the analysis and task-generation pipeline of ai-refactor-tool *)
(* (src/src/index.js): directory traversal, per-file analysis, aggregation, *)
(* the six artifacts written by `analyze`, the task backlog, and the `work` *)
(* and `status` commands that read them back.                               *)
(*                                                                          *)
(* Strings the code inspects character by character (file names, relative  *)
(* paths, import specifiers, task ids) are tuples of one-character strings, *)
(* so that startsWith / includes / extname / padStart are computed as the   *)
(* code computes them.  Opaque texts (titles, framework names) are atoms.   *)
(*                                                                          *)
(* Spec is the state machine of the commands.  SpecPrompt adds the removal  *)
(* of machine_context.json between commands.  SpecComplexity and SpecFold   *)
(* apply calculateComplexity and the aggregation loop on their own to       *)
(* inputs drawn from bounded sets.                                          *)
EXTENDS Integers, Sequences, FiniteSets, TLC

VARIABLES
    project,    \* the project files under the scanned root: path -> text
    disk,       \* the six artifacts of <root>/ai-analysis (absent or a document)
    dirMade,    \* TRUE once <root>/ai-analysis exists
    writtenBy,  \* history: for each artifact, the analyze run that last wrote it
    runs,       \* number of analyze runs started so far (also the clock)
    history,    \* history: one entry per analyze run, what the run computed
    edits,      \* number of external edits of the artifacts so far
    out,        \* what the last command printed, and its exit status
    otherDir,   \* "absent", or what became of a directory `analyze` did not find
    input,      \* the argument of the function applied on its own (see below)
    result      \* its result, once computed

vars == <<project, disk, dirMade, writtenBy, runs, history, edits, out,
          otherDir, input, result>>

-----------------------------------------------------------------------------
(* Bounds of the model *)

MaxRuns == 2
MaxEdits == 1
MaxPieces == 3

-----------------------------------------------------------------------------
(* String primitives (JavaScript String.prototype and Node's path module)  *)

Range(s) == {s[i] : i \in 1..Len(s)}

startsWith(s, p) == Len(s) >= Len(p) /\ SubSeq(s, 1, Len(p)) = p

includes(s, p) == \E i \in 0..(Len(s) - Len(p)) : SubSeq(s, i + 1, i + Len(p)) = p

LowerChar(c) ==
    CASE c = "J" -> "j" [] c = "S" -> "s" [] c = "C" -> "c" [] c = "T" -> "t"
      [] OTHER -> c

toLowerCase(s) == [i \in 1..Len(s) |-> LowerChar(s[i])]

\* index of the last occurrence of character c in s at or before i, 0 when none
RECURSIVE LastIndexFrom(_, _, _)
LastIndexFrom(s, c, i) ==
    IF i = 0 THEN 0 ELSE IF s[i] = c THEN i ELSE LastIndexFrom(s, c, i - 1)

LastIndexOf(s, c) == LastIndexFrom(s, c, Len(s))

basename(p) == SubSeq(p, LastIndexOf(p, "/") + 1, Len(p))

dirname(p) ==
    IF LastIndexOf(p, "/") = 0 THEN <<".">> ELSE SubSeq(p, 1, LastIndexOf(p, "/") - 1)

\* path.extname: from the last '.' of the base name, unless that is its first character
extname(p) ==
    LET b == basename(p)
        i == LastIndexOf(b, ".")
    IN  IF i <= 1 THEN <<>> ELSE SubSeq(b, i, Len(b))

RECURSIVE joinPath(_)
joinPath(parts) ==
    IF Len(parts) = 0 THEN <<>>
    ELSE IF Len(parts) = 1 THEN parts[1]
    ELSE parts[1] \o <<"/">> \o joinPath(Tail(parts))

\* Number.toString for a natural number, as a tuple of digit characters
Digit(d) == CASE d = 0 -> "0" [] d = 1 -> "1" [] d = 2 -> "2" [] d = 3 -> "3"
              [] d = 4 -> "4" [] d = 5 -> "5" [] d = 6 -> "6" [] d = 7 -> "7"
              [] d = 8 -> "8" [] d = 9 -> "9"

RECURSIVE String(_)
String(n) == IF n < 10 THEN <<Digit(n)>> ELSE String(n \div 10) \o <<Digit(n % 10)>>

RECURSIVE padStart(_, _, _)
padStart(s, n, c) == IF Len(s) >= n THEN s ELSE padStart(<<c>> \o s, n, c)

-----------------------------------------------------------------------------
(* Constants of the program *)

ANALYSIS_DIR == <<"a", "i", "-", "a", "n", "a", "l", "y", "s", "i", "s">>
ANALYSIS_SUMMARY_FILE ==
    <<"a", "n", "a", "l", "y", "s", "i", "s", "_", "s", "u", "m", "m", "a", "r", "y", ".", "m", "d">>
MACHINE_CONTEXT_FILE ==
    <<"m", "a", "c", "h", "i", "n", "e", "_", "c", "o", "n", "t", "e", "x", "t", ".", "j", "s", "o", "n">>
TASK_BACKLOG_FILE ==
    <<"t", "a", "s", "k", "_", "b", "a", "c", "k", "l", "o", "g", ".", "j", "s", "o", "n">>
CODE_INVENTORY_FILE ==
    <<"c", "o", "d", "e", "_", "i", "n", "v", "e", "n", "t", "o", "r", "y", ".", "j", "s", "o", "n">>
DEPENDENCY_MAP_FILE ==
    <<"d", "e", "p", "e", "n", "d", "e", "n", "c", "y", "_", "m", "a", "p", ".", "j", "s", "o", "n">>
METRICS_FILE ==
    <<"c", "o", "d", "e", "_", "m", "e", "t", "r", "i", "c", "s", ".", "j", "s", "o", "n">>

SUPPORTED_EXTENSIONS ==
    { <<".", "j", "s">>, <<".", "j", "s", "x">>, <<".", "t", "s">>, <<".", "t", "s", "x">>,
      <<".", "v", "u", "e">>, <<".", "s", "v", "e", "l", "t", "e">>,
      <<".", "a", "s", "t", "r", "o">>,
      <<".", "j", "s", "o", "n">>, <<".", "m", "d">>, <<".", "c", "s", "s">>,
      <<".", "s", "c", "s", "s">>, <<".", "s", "a", "s", "s">>, <<".", "l", "e", "s", "s">>,
      <<".", "h", "t", "m", "l">>, <<".", "h", "t", "m">>, <<".", "x", "m", "l">>,
      <<".", "y", "m", "l">>, <<".", "y", "a", "m", "l">>, <<".", "t", "o", "m", "l">> }

\* the extensions runAnalysis hands to analyzeJavaScriptFile
SOURCE_EXTENSIONS ==
    { <<".", "j", "s">>, <<".", "j", "s", "x">>, <<".", "t", "s">>, <<".", "t", "s", "x">>,
      <<".", "v", "u", "e">>, <<".", "s", "v", "e", "l", "t", "e">>,
      <<".", "a", "s", "t", "r", "o">> }

PACKAGE_JSON == <<"p", "a", "c", "k", "a", "g", "e", ".", "j", "s", "o", "n">>
COMPOSER_JSON == <<"c", "o", "m", "p", "o", "s", "e", "r", ".", "j", "s", "o", "n">>
REQUIREMENTS_TXT ==
    <<"r", "e", "q", "u", "i", "r", "e", "m", "e", "n", "t", "s", ".", "t", "x", "t">>

\* the base names runAnalysis hands to analyzeConfigFile
CONFIG_NAMES == {PACKAGE_JSON, COMPOSER_JSON, REQUIREMENTS_TXT}

\* the ignore fragments the analyze command always appends to --ignore
CLI_IGNORE ==
    << <<".", "g", "i", "t">>,
       <<"n", "o", "d", "e", "_", "m", "o", "d", "u", "l", "e", "s">>,
       <<"d", "i", "s", "t">>,
       <<"b", "u", "i", "l", "d">> >>

\* summary.complexity above which the refactoring task is emitted
COMPLEXITY_LIMIT == 100
\* per-file complexity above which a file is listed in the refactoring task
FILE_COMPLEXITY_LIMIT == 20
\* width of the zero-padded task number
ID_WIDTH == 3

-----------------------------------------------------------------------------
(* The files the model draws projects from *)

A_JS == <<"a", ".", "j", "s">>
MAIN_TS == <<"m", "a", "i", "n", ".", "t", "s">>
UPPER_JS == <<"C", ".", "J", "S">>
X_JS == <<"x", ".", "j", "s">>
NOTES_TXT == <<"n", "o", "t", "e", "s", ".", "t", "x", "t">>
SRC == <<"s", "r", "c">>
NODE_MODULES == <<"n", "o", "d", "e", "_", "m", "o", "d", "u", "l", "e", "s">>

\* import specifiers
RelB == <<".", "/", "b">>
RelUpA == <<".", ".", "/", "a">>
RelX == <<".", "/", "x">>
Vue == <<"v", "u", "e">>
Lodash == <<"l", "o", "d", "a", "s", "h">>

\* paths are sequences of names below the scanned root
PathA == <<A_JS>>
PathMain == <<SRC, MAIN_TS>>
PathPkg == <<PACKAGE_JSON>>
PathUpper == <<UPPER_JS>>
PathDep == <<NODE_MODULES, X_JS>>
PathNotes == <<NOTES_TXT>>

\* readdirSync returns the names of one directory in a fixed order
ListingOrder ==
    << UPPER_JS, A_JS, ANALYSIS_DIR, NODE_MODULES, NOTES_TXT, PACKAGE_JSON, SRC,
       MAIN_TS, X_JS,
       ANALYSIS_SUMMARY_FILE, CODE_INVENTORY_FILE, METRICS_FILE, DEPENDENCY_MAP_FILE,
       MACHINE_CONTEXT_FILE, TASK_BACKLOG_FILE >>

(* The text of a file, as the facts the heuristics read off it: whether the *)
(* parser accepts it, the specifiers and names the import/export patterns   *)
(* capture, the number of matches the nine complexity patterns find in it   *)
(* (complexityOfText below counts them character by character), the number  *)
(* of lines, whether a test call occurs, the frameworks whose pattern       *)
(* matches, and its size in bytes.  The pattern built for '||' matches at   *)
(* every position of a text, so a text of n characters has n + 1 matches at *)
(* least; the texts here are ASCII and hold no keyword, so hits = size + 1. *)
Text(parses, imports, exports, hits, lines, tests, fws, size) ==
    [parses |-> parses, imports |-> imports, exports |-> exports, hits |-> hits,
     lines |-> lines, tests |-> tests, frameworks |-> fws, size |-> size]

TxPlain == Text(TRUE, <<>>, <<>>, 2, 1, FALSE, <<>>, 1)
TxRelImp == Text(TRUE, <<RelB, Vue, RelB>>, <<"f">>, 19, 2, FALSE, <<"Vue">>, 18)
TxBareSelf == Text(TRUE, <<A_JS, RelUpA, Vue>>, <<"g">>, 20, 3, TRUE, <<"React", "Vue">>, 19)
TxComplex == Text(TRUE, <<Lodash>>, <<>>, 79, 4, FALSE, <<>>, 78)
TxHuge == Text(TRUE, <<>>, <<"h">>, 100, 5, FALSE, <<"React">>, 99)
TxBroken == Text(FALSE, <<RelX, Lodash>>, <<"k">>, 100, 6, TRUE, <<"Angular">>, 99)

\* a package.json that JSON.parse accepts, and one it rejects
PkgGood == Text(TRUE, <<>>, <<>>, 8, 1, FALSE, <<>>, 7)
PkgBad == Text(FALSE, <<>>, <<>>, 9, 1, FALSE, <<>>, 8)

\* the projects: each path absent or holding one of the texts it may hold
Choices(p) ==
    CASE p = PathA -> {TxRelImp, TxBareSelf, TxHuge, TxBroken}
      [] p = PathMain -> {TxRelImp, TxBareSelf, TxComplex}
      [] p = PathPkg -> {PkgGood, PkgBad}
      [] p = PathUpper -> {TxBareSelf}
      [] p = PathDep -> {TxHuge}
      [] p = PathNotes -> {TxPlain}

Universe == {PathA, PathMain, PathPkg, PathUpper, PathDep, PathNotes}

NoText == [absent |-> TRUE]

Optional(p) == Choices(p) \cup {NoText}

\* the file system below the root that holds exactly the given texts
ProjectOf(a, m, k, u, d, n) ==
    LET f == [p \in Universe |->
                CASE p = PathA -> a [] p = PathMain -> m [] p = PathPkg -> k
                  [] p = PathUpper -> u [] p = PathDep -> d [] p = PathNotes -> n]
    IN  [p \in {q \in Universe : f[q] # NoText} |-> f[p]]

-----------------------------------------------------------------------------
(* JavaScript objects used as insertion-ordered maps: a sequence of         *)
(* [key, value] entries, no key twice                                       *)

ObjKeys(o) == [i \in 1..Len(o) |-> o[i].key]

ObjHas(o, k) == \E i \in 1..Len(o) : o[i].key = k

ObjGet(o, k) == o[CHOOSE i \in 1..Len(o) : o[i].key = k].value

ObjSet(o, k, v) ==
    IF ObjHas(o, k)
    THEN [i \in 1..Len(o) |-> IF o[i].key = k THEN [key |-> k, value |-> v] ELSE o[i]]
    ELSE Append(o, [key |-> k, value |-> v])

\* `x.field || 0` and `x.field` as a condition, for a field that may be missing
OrZero(r, field) == IF field \in DOMAIN r THEN r[field] ELSE 0

Truthy(r, field) == field \in DOMAIN r /\ r[field] = TRUE

\* `x.field?.forEach`: the list, or nothing when the field is missing
OrEmpty(r, field) == IF field \in DOMAIN r THEN r[field] ELSE <<>>

RECURSIVE SumSeq(_)
SumSeq(s) == IF s = <<>> THEN 0 ELSE Head(s) + SumSeq(Tail(s))

-----------------------------------------------------------------------------
(* The file system the traversal sees: the project files and, below         *)
(* ai-analysis, the artifacts earlier runs left on disk                     *)

Artifacts == {"inventory", "dependencyMap", "metrics", "summary", "context", "backlog"}

ArtifactFile(a) ==
    CASE a = "inventory" -> CODE_INVENTORY_FILE
      [] a = "dependencyMap" -> DEPENDENCY_MAP_FILE
      [] a = "metrics" -> METRICS_FILE
      [] a = "summary" -> ANALYSIS_SUMMARY_FILE
      [] a = "context" -> MACHINE_CONTEXT_FILE
      [] a = "backlog" -> TASK_BACKLOG_FILE

ArtifactPath(a) == <<ANALYSIS_DIR, ArtifactFile(a)>>

\* the length of a serialized document, up to what the model distinguishes
ByteLength(a, doc) ==
    CASE a = "inventory" -> 1 + doc.totalFiles
      [] a = "backlog" -> 1 + doc.totalTasks
      [] a = "context" -> 1 + doc.summary.fileCount
      [] OTHER -> 1

Prefixes(p) == {SubSeq(p, 1, n) : n \in 1..(Len(p) - 1)}

TreeOf(proj, dsk, made) ==
    LET arts == {ArtifactPath(a) : a \in DOMAIN dsk}
        keyOf(q) == CHOOSE a \in DOMAIN dsk : ArtifactPath(a) = q
        files == [q \in DOMAIN proj \cup arts |->
                    IF q \in DOMAIN proj THEN proj[q].size
                    ELSE ByteLength(keyOf(q), dsk[keyOf(q)])]
    IN  [files |-> files,
         dirs |-> UNION {Prefixes(q) : q \in DOMAIN files}
                    \cup (IF made THEN {<<ANALYSIS_DIR>>} ELSE {})]

readdirSync(tree, dir) ==
    SelectSeq(ListingOrder,
              LAMBDA n : Append(dir, n) \in (DOMAIN tree.files) \cup tree.dirs)

isDirectory(tree, p) == p \in tree.dirs

\* a faulty variant: the extension is compared as it is spelled
isTextFile_CaseSensitive(filePath) == extname(filePath) \in SUPPORTED_EXTENSIONS

isTextFile(filePath) == toLowerCase(extname(filePath)) \in SUPPORTED_EXTENSIONS

FileRecord(tree, p) ==
    [path |-> p, relativePath |-> joinPath(p), size |-> tree.files[p]]

RECURSIVE traverse(_, _, _)
RECURSIVE traverseItems(_, _, _, _)
traverseItems(tree, currentDir, items, ignorePatterns) ==
    IF items = <<>> THEN <<>>
    ELSE LET item == Head(items)
             fullPath == Append(currentDir, item)
             rest == traverseItems(tree, currentDir, Tail(items), ignorePatterns)
         IN  IF \E i \in 1..Len(ignorePatterns) : includes(item, ignorePatterns[i])
             THEN rest
             ELSE IF isDirectory(tree, fullPath)
             THEN traverse(tree, fullPath, ignorePatterns) \o rest
             ELSE IF isTextFile(joinPath(fullPath))
             THEN <<FileRecord(tree, fullPath)>> \o rest
             ELSE rest

traverse(tree, currentDir, ignorePatterns) ==
    traverseItems(tree, currentDir, readdirSync(tree, currentDir), ignorePatterns)

traverseDirectory(tree, ignorePatterns) == traverse(tree, <<>>, ignorePatterns)

-----------------------------------------------------------------------------
(* Per-file analysis *)

calculateComplexity(text) == 1 + text.hits

(* calculateComplexity on the characters of a text.  A text is a tuple of   *)
(* one-character strings.  Each keyword is spliced into the pattern source  *)
(* \bKEYWORD\b unescaped; a pattern is kept as its alternatives ('|' in the *)
(* source separates them), each a tuple of atoms: the assertion "\\b" or a   *)
(* literal character.                                                       *)
complexityKeywords ==
    << <<"i", "f">>, <<"e", "l", "s", "e">>, <<"f", "o", "r">>,
       <<"w", "h", "i", "l", "e">>, <<"c", "a", "s", "e">>,
       <<"c", "a", "t", "c", "h">>, <<"r", "e", "t", "u", "r", "n">>,
       <<"&", "&">>, <<"|", "|">> >>

WordChars ==
    {"a", "b", "c", "d", "e", "f", "g", "h", "i", "j", "k", "l", "m", "n", "o", "p",
     "q", "r", "s", "t", "u", "v", "w", "x", "y", "z", "_",
     "0", "1", "2", "3", "4", "5", "6", "7", "8", "9"}

\* the source of the pattern built for a keyword
patternSource(keyword) == <<"\\b">> \o keyword \o <<"\\b">>

\* the alternatives of a pattern source
RECURSIVE alternatives(_, _)
alternatives(source, current) ==
    IF source = <<>> THEN <<current>>
    ELSE IF Head(source) = "|"
         THEN <<current>> \o alternatives(Tail(source), <<>>)
         ELSE alternatives(Tail(source), Append(current, Head(source)))

\* \b holds at offset i: exactly one of the characters around it is a word character
wordBoundary(content, i) ==
    (i >= 1 /\ content[i] \in WordChars) # (i < Len(content) /\ content[i + 1] \in WordChars)

\* the offset where alternative alt, from its atom k on, ends when matched at
\* offset i; -1 when it does not match there
RECURSIVE matchEnd(_, _, _, _)
matchEnd(content, alt, k, i) ==
    IF k > Len(alt) THEN i
    ELSE IF alt[k] = "\\b"
         THEN IF wordBoundary(content, i) THEN matchEnd(content, alt, k + 1, i) ELSE -1
         ELSE IF i < Len(content) /\ content[i + 1] = alt[k]
              THEN matchEnd(content, alt, k + 1, i + 1)
              ELSE -1

\* the first alternative that matches at offset i decides; -1 when none does
RECURSIVE firstMatchEnd(_, _, _)
firstMatchEnd(content, alts, i) ==
    IF alts = <<>> THEN -1
    ELSE IF matchEnd(content, Head(alts), 1, i) # -1
         THEN matchEnd(content, Head(alts), 1, i)
         ELSE firstMatchEnd(content, Tail(alts), i)

\* content.match(regex).length with the g flag, scanning from offset i: after
\* a match the scan goes on at its end, one further when the match is empty
RECURSIVE matchCount(_, _, _)
matchCount(content, alts, i) ==
    IF i > Len(content) THEN 0
    ELSE LET e == firstMatchEnd(content, alts, i)
         IN  IF e = -1 THEN matchCount(content, alts, i + 1)
             ELSE 1 + matchCount(content, alts, IF e > i THEN e ELSE i + 1)

RECURSIVE complexityFrom(_, _)
complexityFrom(content, k) ==
    IF k > Len(complexityKeywords) THEN 0
    ELSE matchCount(content, alternatives(patternSource(complexityKeywords[k]), <<>>), 0)
         + complexityFrom(content, k + 1)

complexityOfText(content) == 1 + complexityFrom(content, 1)

detectFrameworks(text) == text.frameworks

\* a faulty variant: the catch block hands on what was read before the failure
analyzeJavaScriptFile_KeepsPartial(text) ==
    IF text.parses
    THEN [type |-> "javascript", imports |-> text.imports, exports |-> text.exports,
          functions |-> <<>>, classes |-> <<>>, variables |-> <<>>,
          complexity |-> calculateComplexity(text), linesOfCode |-> text.lines,
          hasTests |-> text.tests, frameworks |-> detectFrameworks(text)]
    ELSE [type |-> "javascript", error |-> "parse error", imports |-> text.imports,
          exports |-> <<>>, complexity |-> calculateComplexity(text),
          linesOfCode |-> text.lines]

\* the try block's result, or the catch block's when reading or parsing throws
analyzeJavaScriptFile(text) ==
    IF text.parses
    THEN [type |-> "javascript",
          imports |-> text.imports,
          exports |-> text.exports,
          functions |-> <<>>, classes |-> <<>>, variables |-> <<>>,
          complexity |-> calculateComplexity(text),
          linesOfCode |-> text.lines,
          hasTests |-> text.tests,
          frameworks |-> detectFrameworks(text)]
    ELSE [type |-> "javascript",
          error |-> "parse error",
          imports |-> <<>>,
          exports |-> <<>>,
          complexity |-> 0]

configTypes(fileName) ==
    CASE fileName = PACKAGE_JSON -> "npm"
      [] fileName = COMPOSER_JSON -> "composer"
      [] fileName = REQUIREMENTS_TXT -> "python"
      [] OTHER -> "unknown"

\* JSON.parse is applied to package.json alone; it throws on a text it rejects
analyzeConfigFile(fileName, text) ==
    IF fileName = PACKAGE_JSON /\ ~text.parses
    THEN [threw |-> TRUE]
    ELSE [threw |-> FALSE, type |-> "config", configType |-> configTypes(fileName),
          content |-> text]

-----------------------------------------------------------------------------
(* Aggregation: the forEach of runAnalysis over the inventory *)

\* Set.prototype.add on an insertion-ordered set
SetAdd(set, x) == IF x \in Range(set) THEN set ELSE Append(set, x)

RECURSIVE SetAddAll(_, _)
SetAddAll(set, xs) ==
    IF xs = <<>> THEN set ELSE SetAddAll(SetAdd(set, Head(xs)), Tail(xs))

\* a faulty variant: only './' marks a relative import, '../' does not
isInternal_OnlyDotSlash(imp) == startsWith(imp, <<".", "/">>)

\* the test that routes an import specifier to the internal edges
isInternal(imp) == startsWith(imp, <<".">>)

\* a faulty variant: the internal edges are keyed by the specifier
addImport_KeyedBySpecifier(dependencyMap, relativePath, imp) ==
    IF startsWith(imp, <<".">>)
    THEN [dependencyMap EXCEPT
            !.internal = ObjSet(dependencyMap.internal, imp, <<imp>>)]
    ELSE IF imp \in Range(dependencyMap.external)
    THEN dependencyMap
    ELSE [dependencyMap EXCEPT !.external = Append(dependencyMap.external, imp)]

\* one step of `analysis.imports?.forEach`
addImport(dependencyMap, relativePath, imp) ==
    IF isInternal(imp)
    THEN LET had == IF ObjHas(dependencyMap.internal, relativePath)
                    THEN ObjGet(dependencyMap.internal, relativePath)
                    ELSE <<>>
         IN  [dependencyMap EXCEPT
                !.internal = ObjSet(dependencyMap.internal, relativePath, Append(had, imp))]
    ELSE IF imp \in Range(dependencyMap.external)
    THEN dependencyMap
    ELSE [dependencyMap EXCEPT !.external = Append(dependencyMap.external, imp)]

RECURSIVE addImports(_, _, _)
addImports(dependencyMap, relativePath, imports) ==
    IF imports = <<>> THEN dependencyMap
    ELSE addImports(addImport(dependencyMap, relativePath, Head(imports)),
                    relativePath, Tail(imports))

\* a faulty variant: a result without a line count is counted as one line
addToMetrics_CountsFailed(metrics, analysis) ==
    [metrics EXCEPT
        !.totalLinesOfCode = @ + (IF "linesOfCode" \in DOMAIN analysis
                                  THEN analysis.linesOfCode ELSE 1),
        !.totalComplexity = @ + OrZero(analysis, "complexity"),
        !.hasTests = IF Truthy(analysis, "hasTests") THEN TRUE ELSE @,
        !.frameworks = SetAddAll(@, OrEmpty(analysis, "frameworks"))]

\* a faulty variant: hasTests is taken from the file at hand
addToMetrics_LastWins(metrics, analysis) ==
    [metrics EXCEPT
        !.totalLinesOfCode = @ + OrZero(analysis, "linesOfCode"),
        !.totalComplexity = @ + OrZero(analysis, "complexity"),
        !.hasTests = Truthy(analysis, "hasTests"),
        !.frameworks = SetAddAll(@, OrEmpty(analysis, "frameworks"))]

\* what one analyzed source file adds to the running metrics
addToMetrics(metrics, analysis) ==
    [metrics EXCEPT
        !.totalLinesOfCode = @ + OrZero(analysis, "linesOfCode"),
        !.totalComplexity = @ + OrZero(analysis, "complexity"),
        !.hasTests = IF Truthy(analysis, "hasTests") THEN TRUE ELSE @,
        !.frameworks = SetAddAll(@, OrEmpty(analysis, "frameworks"))]

EmptyAggregate ==
    [fileAnalysis |-> <<>>,
     dependencyMap |-> [internal |-> <<>>, external |-> <<>>],
     metrics |-> [totalLinesOfCode |-> 0, totalComplexity |-> 0, frameworks |-> <<>>,
                  hasTests |-> FALSE, configFiles |-> <<>>],
     threw |-> FALSE]

\* the body of the forEach callback for one inventory entry
analyzeOne(acc, file, proj) ==
    IF extname(joinPath(file.path)) \in SOURCE_EXTENSIONS
    THEN LET analysis == analyzeJavaScriptFile(proj[file.path])
         IN  [acc EXCEPT
                !.fileAnalysis = ObjSet(@, file.relativePath, analysis),
                !.metrics = addToMetrics(@, analysis),
                !.dependencyMap =
                    addImports(@, file.relativePath, OrEmpty(analysis, "imports"))]
    ELSE IF basename(joinPath(file.path)) \in CONFIG_NAMES
    THEN LET configAnalysis == analyzeConfigFile(basename(joinPath(file.path)),
                                                 proj[file.path])
         IN  IF configAnalysis.threw
             THEN [acc EXCEPT !.threw = TRUE]
             ELSE [acc EXCEPT !.metrics.configFiles =
                        Append(@, [file |-> file.relativePath,
                                   type |-> configAnalysis.configType,
                                   content |-> configAnalysis.content])]
    ELSE acc

\* the forEach: an exception thrown by the callback ends it
RECURSIVE analyzeFiles(_, _, _)
analyzeFiles(acc, files, proj) ==
    IF files = <<>> \/ acc.threw THEN acc
    ELSE analyzeFiles(analyzeOne(acc, Head(files), proj), Tail(files), proj)

-----------------------------------------------------------------------------
(* The documents *)

RECURSIVE countTypes(_, _)
countTypes(fileTypes, files) ==
    IF files = <<>> THEN fileTypes
    ELSE LET ext == IF Head(files).extension = <<>>
                    THEN <<"n", "o", "-", "e", "x", "t">>
                    ELSE Head(files).extension
             n == IF ObjHas(fileTypes, ext) THEN ObjGet(fileTypes, ext) ELSE 0
         IN  countTypes(ObjSet(fileTypes, ext, n + 1), Tail(files))

buildInventory(files) ==
    LET listed == [i \in 1..Len(files) |->
                     [path |-> files[i].path,
                      relativePath |-> files[i].relativePath,
                      size |-> files[i].size,
                      extension |-> extname(files[i].relativePath),
                      directory |-> dirname(files[i].relativePath)]]
    IN  [totalFiles |-> Len(files),
         totalSize |-> SumSeq([i \in 1..Len(files) |-> files[i].size]),
         fileTypes |-> countTypes(<<>>, listed),
         files |-> listed]

generateAnalysisSummary(inventory, analysis, dependencies, metrics, now) ==
    [projectPath |-> "root",
     date |-> now,
     totalFiles |-> inventory.totalFiles,
     totalSize |-> inventory.totalSize,
     linesOfCode |-> metrics.totalLinesOfCode,
     totalComplexity |-> metrics.totalComplexity,
     frameworks |-> metrics.frameworks,
     hasTests |-> metrics.hasTests,
     configFiles |-> [i \in 1..Len(metrics.configFiles) |->
                        [file |-> metrics.configFiles[i].file,
                         type |-> metrics.configFiles[i].type]],
     external |-> SubSeq(dependencies.external, 1,
                         IF Len(dependencies.external) > 10 THEN 10
                         ELSE Len(dependencies.external)),
     highComplexity |->
        Cardinality({i \in 1..Len(analysis) :
                        OrZero(analysis[i].value, "complexity") > FILE_COMPLEXITY_LIMIT}),
     internalCount |-> Len(dependencies.internal),
     externalCount |-> Len(dependencies.external)]

buildMachineContext(inventory, fileAnalysis, dependencyMap, metrics, now) ==
    [timestamp |-> now,
     projectPath |-> "root",
     analysisVersion |-> "3.0",
     summary |-> [fileCount |-> inventory.totalFiles,
                  totalSize |-> inventory.totalSize,
                  linesOfCode |-> metrics.totalLinesOfCode,
                  complexity |-> metrics.totalComplexity,
                  frameworks |-> metrics.frameworks,
                  hasTests |-> metrics.hasTests],
     files |-> fileAnalysis,
     dependencies |-> dependencyMap,
     metrics |-> metrics]

-----------------------------------------------------------------------------
(* generateTaskBacklog *)

formatId(taskId) == <<"T", "-">> \o padStart(String(taskId), ID_WIDTH, "0")

\* a faulty variant: the counter is not advanced
bump_Stuck(taskId) == taskId

\* taskId++ after a rule has pushed its task
bump(taskId) == taskId + 1

needsTesting(summary) == ~summary.hasTests

\* a faulty variant: the limit itself already triggers the rule
needsRefactoring_AtLimit(summary) == summary.complexity >= COMPLEXITY_LIMIT

needsRefactoring(summary) == summary.complexity > COMPLEXITY_LIMIT

complexFiles(files) ==
    SelectSeq(ObjKeys(files),
              LAMBDA f : OrZero(ObjGet(files, f), "complexity") > FILE_COMPLEXITY_LIMIT)

testingTask(taskId) ==
    [id |-> formatId(taskId),
     title |-> "Add Testing Framework Setup",
     priority |-> "high",
     status |-> "pending",
     description |-> "Set up a testing framework",
     estimatedEffort |-> "medium",
     tags |-> <<"testing", "setup">>,
     sourceFiles |-> <<PACKAGE_JSON>>,
     prompt |-> "set up testing"]

refactorTask(taskId, files) ==
    [id |-> formatId(taskId),
     title |-> "Refactor High Complexity Functions",
     priority |-> "medium",
     status |-> "pending",
     description |-> "Identify and refactor complex functions",
     estimatedEffort |-> "large",
     tags |-> <<"refactoring", "complexity">>,
     sourceFiles |-> complexFiles(files),
     prompt |-> "reduce complexity"]

generateTaskBacklog(context, now) ==
    LET first == IF needsTesting(context.summary) THEN <<testingTask(1)>> ELSE <<>>
        taskId == IF needsTesting(context.summary) THEN bump(1) ELSE 1
        second == IF needsRefactoring(context.summary)
                  THEN <<refactorTask(taskId, context.files)>>
                  ELSE <<>>
        tasks == first \o second
    IN  [version |-> "3.0", generated |-> now, totalTasks |-> Len(tasks), tasks |-> tasks]

-----------------------------------------------------------------------------
(* runAnalysis on an existing root: what it computes and, in order, what it *)
(* writes.  The inventory is written before the files are analyzed; an      *)
(* exception thrown while they are analyzed ends the run there.             *)

runAnalysis(proj, dsk, ignore, now) ==
    LET files == traverseDirectory(TreeOf(proj, dsk, TRUE), ignore \o CLI_IGNORE)
        inventory == buildInventory(files)
        agg == analyzeFiles(EmptyAggregate, inventory.files, proj)
        summary == generateAnalysisSummary(inventory, agg.fileAnalysis,
                                           agg.dependencyMap, agg.metrics, now)
        context == buildMachineContext(inventory, agg.fileAnalysis,
                                       agg.dependencyMap, agg.metrics, now)
        backlog == generateTaskBacklog(context, now)
    IN  [threw |-> agg.threw,
         ignore |-> ignore,
         inventory |-> inventory,
         agg |-> agg,
         writes |-> IF agg.threw
                    THEN << [file |-> "inventory", doc |-> inventory] >>
                    ELSE << [file |-> "inventory", doc |-> inventory],
                            [file |-> "dependencyMap", doc |-> agg.dependencyMap],
                            [file |-> "metrics", doc |-> agg.metrics],
                            [file |-> "summary", doc |-> summary],
                            [file |-> "context", doc |-> context],
                            [file |-> "backlog", doc |-> backlog] >>]

\* a faulty variant: a task_backlog.json already on disk is kept
RECURSIVE writeAll_KeepBacklog(_, _)
writeAll_KeepBacklog(dsk, writes) ==
    IF writes = <<>> THEN dsk
    ELSE LET w == Head(writes)
         IN  writeAll_KeepBacklog(
                [a \in DOMAIN dsk \cup {w.file} |->
                    IF a = w.file /\ ~(a = "backlog" /\ a \in DOMAIN dsk)
                    THEN w.doc ELSE dsk[a]],
                Tail(writes))

(* fs.writeFileSync, one after the other.  The disk holds the documents     *)
(* themselves: JSON.stringify followed by JSON.parse gives back every field *)
(* the model keeps (the framework Set is turned into an array before it is  *)
(* written, and a missing field stays missing).                             *)
RECURSIVE writeAll(_, _)
writeAll(dsk, writes) ==
    IF writes = <<>> THEN dsk
    ELSE LET w == Head(writes)
         IN  writeAll([a \in DOMAIN dsk \cup {w.file} |->
                          IF a = w.file THEN w.doc ELSE dsk[a]],
                      Tail(writes))

-----------------------------------------------------------------------------
(* runWork and the status command: they read the artifacts and print *)

\* the project file a task's source file names, resolved against baseDir
Resolve(proj, file) == {p \in DOMAIN proj : joinPath(p) = file}

sourceContext(proj, baseIsRoot, sourceFiles) ==
    [i \in 1..Len(sourceFiles) |->
        IF baseIsRoot /\ Resolve(proj, sourceFiles[i]) # {}
        THEN [file |-> sourceFiles[i], found |-> TRUE,
              lang |-> Tail(extname(sourceFiles[i])),
              content |-> proj[CHOOSE p \in Resolve(proj, sourceFiles[i]) : TRUE]]
        ELSE [file |-> sourceFiles[i], found |-> FALSE]]

\* a faulty variant: the listing is not filtered by status
pendingTasks_Unfiltered(backlog) == backlog.tasks

pendingTasks(backlog) == SelectSeq(backlog.tasks, LAMBDA t : t.status = "pending")

findTask(backlog, taskId) ==
    LET hits == {i \in 1..Len(backlog.tasks) :
                    toLowerCase(backlog.tasks[i].id) = toLowerCase(taskId)}
    IN  IF hits = {} THEN <<>>
        ELSE <<backlog.tasks[CHOOSE i \in hits : \A j \in hits : i <= j]>>

(* taskId is the --task option, <<>> when it is not given; cwdIsRoot tells  *)
(* whether the process runs in the scanned root, which is where source      *)
(* files are looked up when machine_context.json is absent (a directory     *)
(* other than the root holds none of the project's files).  The record      *)
(* returned is what the command printed, with the option it was given.      *)
runWork(dsk, proj, taskId, cwdIsRoot) ==
    IF "backlog" \notin DOMAIN dsk
    THEN [cmd |-> "work", task |-> taskId, exit |-> 1, kind |-> "fatal",
          error |-> "backlog not found"]
    ELSE IF taskId = <<>>
    THEN IF pendingTasks(dsk.backlog) = <<>>
         THEN [cmd |-> "work", task |-> taskId, exit |-> 0, kind |-> "completed"]
         ELSE [cmd |-> "work", task |-> taskId, exit |-> 0, kind |-> "list",
               listed |-> pendingTasks(dsk.backlog)]
    ELSE IF findTask(dsk.backlog, taskId) = <<>>
    THEN [cmd |-> "work", task |-> taskId, exit |-> 1, kind |-> "fatal",
          error |-> "task not found"]
    ELSE LET task == findTask(dsk.backlog, taskId)[1]
             hasContext == "context" \in DOMAIN dsk
         IN  [cmd |-> "work", task |-> taskId, exit |-> 0, kind |-> "prompt",
              title |-> task.title,
              priority |-> task.priority,
              contextLine |-> IF hasContext
                              THEN <<[frameworks |-> dsk.context.summary.frameworks,
                                      fileCount |-> dsk.context.summary.fileCount,
                                      linesOfCode |-> dsk.context.summary.linesOfCode]>>
                              ELSE <<>>,
              prompt |-> task.prompt,
              sources |-> sourceContext(proj, hasContext \/ cwdIsRoot, task.sourceFiles)]

\* a faulty variant: composing a prompt marks the task done in task_backlog.json
filesAfterWork_MarksDone(dsk, taskId) ==
    IF "backlog" \in DOMAIN dsk /\ taskId # <<>> /\ findTask(dsk.backlog, taskId) # <<>>
    THEN [dsk EXCEPT !.backlog.tasks =
            [i \in 1..Len(@) |->
                IF toLowerCase(@[i].id) = toLowerCase(taskId)
                THEN [@[i] EXCEPT !.status = "done"] ELSE @[i]]]
    ELSE dsk

\* the artifacts after runWork: it reads them and calls no fs.write*
filesAfterWork(dsk, taskId) == dsk

\* the artifacts after the status command: it reads machine_context.json alone
filesAfterStatus(dsk) == dsk

status(dsk) ==
    IF "context" \in DOMAIN dsk
    THEN [cmd |-> "status", exit |-> 0, kind |-> "status",
          fileCount |-> dsk.context.summary.fileCount,
          linesOfCode |-> dsk.context.summary.linesOfCode,
          complexity |-> dsk.context.summary.complexity,
          lastAnalysis |-> dsk.context.timestamp]
    ELSE [cmd |-> "status", exit |-> 0, kind |-> "no analysis"]

-----------------------------------------------------------------------------
(* The state machine *)

\* a faulty variant: the existence of the directory is not checked
rootGuard_NoCheck(dirExists) == "run"

\* runAnalysis leaves through process.exit(1) when the directory does not exist
rootGuard(dirExists) == IF ~dirExists THEN "exit" ELSE "run"

\* nothing has been applied on its own
NoInput == [kind |-> "none"]

IgnoreOptions == { <<>>, << <<"a", "i">> >> }

TaskOptions ==
    { <<>>, <<"T", "-", "0", "0", "1">>, <<"t", "-", "0", "0", "2">>,
      <<"T", "-", "9", "9", "9">> }

\* the three files that test the scanner are present together or not at all
\* some project lies below the root
SomeProject ==
    \E a \in Optional(PathA), m \in Optional(PathMain), k \in Optional(PathPkg),
       extras \in BOOLEAN :
        project = IF extras
                  THEN ProjectOf(a, m, k, TxBareSelf, TxHuge, TxPlain)
                  ELSE ProjectOf(a, m, k, NoText, NoText, NoText)

\* no command has run yet
NothingRun ==
    /\ disk = << >>
    /\ dirMade = FALSE
    /\ writtenBy = << >>
    /\ runs = 0
    /\ history = << >>
    /\ edits = 0
    /\ out = [cmd |-> "none"]
    /\ otherDir = "absent"

Init ==
    /\ SomeProject
    /\ NothingRun
    /\ input = NoInput
    /\ result = NoInput

(* `analyze <directory>` on a directory that does not exist.  Were the run   *)
(* not ended there, createDirectory (mkdirSync, recursive) would create the *)
(* directory and ai-analysis in it, and the run would analyze an empty tree.*)
AnalyzeMissing ==
    /\ IF rootGuard(FALSE) = "exit"
       THEN /\ out' = [cmd |-> "analyze", exit |-> 1, kind |-> "fatal",
                       error |-> "directory not found"]
            /\ otherDir' = otherDir
       ELSE /\ out' = [cmd |-> "analyze", exit |-> 0, kind |-> "complete",
                       totalFiles |-> 0, linesOfCode |-> 0]
            /\ otherDir' = "analyzed"
    /\ UNCHANGED <<project, disk, dirMade, writtenBy, runs, history, edits,
                   input, result>>

\* `analyze <root> [--ignore ...]`
Analyze(ignore) ==
    /\ runs < MaxRuns
    /\ rootGuard(TRUE) = "run"
    /\ \E now \in {runs + 1} : \E r \in {runAnalysis(project, disk, ignore, now)} :
           /\ disk' = writeAll(disk, r.writes)
           /\ writtenBy' = [a \in DOMAIN disk' |->
                              IF \E i \in 1..Len(r.writes) : r.writes[i].file = a
                              THEN now ELSE writtenBy[a]]
           /\ history' = Append(history,
                                [ignore |-> ignore, threw |-> r.threw,
                                 before |-> disk,
                                 inventory |-> r.inventory, agg |-> r.agg])
           /\ out' = IF r.threw
                     THEN [cmd |-> "analyze", exit |-> 1, kind |-> "uncaught"]
                     ELSE [cmd |-> "analyze", exit |-> 0, kind |-> "complete",
                           totalFiles |-> r.inventory.totalFiles,
                           linesOfCode |-> r.agg.metrics.totalLinesOfCode]
    /\ dirMade' = TRUE
    /\ runs' = runs + 1
    /\ UNCHANGED <<project, edits, otherDir, input, result>>

\* `work <root>/ai-analysis [--task id]`
Work(taskId, cwdIsRoot) ==
    /\ out' = runWork(disk, project, taskId, cwdIsRoot)
    /\ disk' = filesAfterWork(disk, taskId)
    /\ UNCHANGED <<project, dirMade, writtenBy, runs, history, edits,
                   otherDir, input, result>>

\* `status <root>/ai-analysis`
Status ==
    /\ out' = status(disk)
    /\ disk' = filesAfterStatus(disk)
    /\ UNCHANGED <<project, dirMade, writtenBy, runs, history, edits,
                   otherDir, input, result>>

\* an external consumer marks a pending task of task_backlog.json done
MarkDone(i) ==
    /\ edits < MaxEdits
    /\ "backlog" \in DOMAIN disk
    /\ i \in 1..Len(disk.backlog.tasks)
    /\ disk.backlog.tasks[i].status = "pending"
    /\ disk' = [disk EXCEPT !.backlog.tasks[i].status = "done"]
    /\ edits' = edits + 1
    /\ out' = [cmd |-> "edit"]
    /\ UNCHANGED <<project, dirMade, writtenBy, runs, history, otherDir, input, result>>

Next ==
    \/ AnalyzeMissing
    \/ \E ignore \in IgnoreOptions : Analyze(ignore)
    \/ \E taskId \in TaskOptions, cwdIsRoot \in BOOLEAN : Work(taskId, cwdIsRoot)
    \/ Status
    \/ \E i \in 1..2 : MarkDone(i)

Spec == Init /\ [][Next]_vars

-----------------------------------------------------------------------------
(* The commands on an analysis directory that may lose machine_context.json *)
(* between an `analyze` and a `work`: runWork reads the file only if it is  *)
(* there.                                                                   *)

\* machine_context.json is removed from <root>/ai-analysis by hand
DeleteContext ==
    /\ edits < MaxEdits
    /\ "context" \in DOMAIN disk
    /\ disk' = [a \in DOMAIN disk \ {"context"} |-> disk[a]]
    /\ edits' = edits + 1
    /\ out' = [cmd |-> "edit"]
    /\ UNCHANGED <<project, dirMade, writtenBy, runs, history, otherDir, input, result>>

NextPrompt == Next \/ DeleteContext

SpecPrompt == Init /\ [][NextPrompt]_vars

-----------------------------------------------------------------------------
(* calculateComplexity applied on its own to the texts of at most MaxPieces *)
(* pieces, a piece being one of the nine keywords, a blank or the letter x. *)

Pieces == Range(complexityKeywords) \cup { <<" ">>, <<"x">> }

RECURSIVE Concat(_)
Concat(pieces) == IF pieces = <<>> THEN <<>> ELSE Head(pieces) \o Concat(Tail(pieces))

Texts == {Concat(ps) : ps \in UNION {[1..n -> Pieces] : n \in 0..MaxPieces}}

ComplexityInit ==
    /\ project = ProjectOf(NoText, NoText, NoText, NoText, NoText, NoText)
    /\ NothingRun
    /\ \E content \in Texts : input = [kind |-> "text", content |-> content]
    /\ result = NoInput

ComputeComplexity ==
    /\ input.kind = "text"
    /\ result = NoInput
    /\ result' = [kind |-> "complexity", value |-> complexityOfText(input.content)]
    /\ UNCHANGED <<project, disk, dirMade, writtenBy, runs, history, edits, out,
                   otherDir, input>>

SpecComplexity == ComplexityInit /\ [][ComputeComplexity]_vars

-----------------------------------------------------------------------------
(* The forEach of runAnalysis applied on its own to the inventory of a      *)
(* project, taken in two orders.                                            *)

\* the sequences that hold the entries of files once each
Orders(files) ==
    {[i \in 1..Len(files) |-> files[f[i]]] :
        f \in {g \in [1..Len(files) -> 1..Len(files)] : Range(g) = 1..Len(files)}}

\* the inventory of the first scan of a project
FirstInventory(proj) ==
    buildInventory(traverseDirectory(TreeOf(proj, <<>>, TRUE), CLI_IGNORE)).files

FoldInit ==
    /\ SomeProject
    /\ NothingRun
    /\ \E first \in Orders(FirstInventory(project)),
          second \in Orders(FirstInventory(project)) :
            input = [kind |-> "orders", first |-> first, second |-> second]
    /\ result = NoInput

Fold ==
    /\ input.kind = "orders"
    /\ result = NoInput
    /\ result' = [kind |-> "folds",
                  first |-> analyzeFiles(EmptyAggregate, input.first, project),
                  second |-> analyzeFiles(EmptyAggregate, input.second, project)]
    /\ UNCHANGED <<project, disk, dirMade, writtenBy, runs, history, edits, out,
                   otherDir, input>>

SpecFold == FoldInit /\ [][Fold]_vars

-----------------------------------------------------------------------------
(* Properties *)

Runs == 1..Len(history)

\* the inventory entries of run i that runAnalysis hands to analyzeJavaScriptFile
SourceEntries(i) ==
    SelectSeq(history[i].inventory.files,
              LAMBDA f : extname(f.relativePath) \in SOURCE_EXTENSIONS)

\* the analysis results of run i, in the order they were stored
Results(i) == history[i].agg.fileAnalysis

Failed(v) == "error" \in DOMAIN v

(* C1: in every analyze run no artifact is written before the whole         *)
(* in-memory pipeline has succeeded: a run that aborts leaves no artifact   *)
(* written by that run, and the artifacts on disk all come from one run.    *)
C1_ArtifactsFromOnePass ==
    /\ \A i \in Runs : history[i].threw => \A a \in DOMAIN disk : writtenBy[a] # i
    /\ \A a, b \in DOMAIN disk : writtenBy[a] = writtenBy[b]

(* C2: two analyze runs in a row on the unchanged project with the same     *)
(* ignore set produce the same inventory (totalFiles, totalSize, fileTypes, *)
(* file list) and the same metrics.                                         *)
C2_AnalyzeIdempotent ==
    \A i \in Runs :
        (/\ i + 1 \in Runs
         /\ history[i].ignore = history[i + 1].ignore
         /\ ~history[i].threw /\ ~history[i + 1].threw)
        => /\ history[i].inventory = history[i + 1].inventory
           /\ history[i].agg.metrics = history[i + 1].agg.metrics

(* C3: a package.json in the scanned tree that cannot be parsed fails only  *)
(* its own inspection: the run completes and writes all six artifacts.      *)
C3_BadManifestRunCompletes ==
    \A i \in Runs :
        (\E k \in 1..Len(history[i].inventory.files) :
            LET f == history[i].inventory.files[k]
            IN  basename(f.relativePath) = PACKAGE_JSON /\ ~project[f.path].parses)
        => /\ ~history[i].threw
           /\ (i = runs => /\ DOMAIN disk = Artifacts
                           /\ \A a \in Artifacts : writtenBy[a] = i)

(* C4: a source file whose reading or parsing fails gets a result with the  *)
(* error message, complexity 0 and no imports or exports; the run goes on   *)
(* to the next file; and the failed file adds nothing to the lines of code, *)
(* the complexity, the frameworks, the has-tests flag or the dependency map.*)
C4_FailedSourceAddsNothing ==
    \A i \in Runs :
        LET src == SourceEntries(i)
            res == Results(i)
            agg == history[i].agg
            ok == {k \in 1..Len(res) : project[src[k].path].parses}
            okPaths == {src[k].relativePath : k \in ok}
        IN  /\ Len(res) <= Len(src)
            /\ ~history[i].threw => Len(res) = Len(src)
            /\ \A k \in 1..Len(res) :
                 /\ res[k].key = src[k].relativePath
                 /\ ~project[src[k].path].parses =>
                       /\ Failed(res[k].value)
                       /\ res[k].value.complexity = 0
                       /\ res[k].value.imports = <<>>
                       /\ res[k].value.exports = <<>>
            /\ agg.metrics.totalLinesOfCode =
                 SumSeq([k \in 1..Len(res) |->
                            IF k \in ok THEN project[src[k].path].lines ELSE 0])
            /\ agg.metrics.totalComplexity =
                 SumSeq([k \in 1..Len(res) |->
                            IF k \in ok THEN 1 + project[src[k].path].hits ELSE 0])
            /\ agg.metrics.hasTests = (\E k \in ok : project[src[k].path].tests)
            /\ Range(agg.metrics.frameworks) =
                 UNION {Range(project[src[k].path].frameworks) : k \in ok}
            /\ Range(ObjKeys(agg.dependencyMap.internal)) \subseteq okPaths
            /\ Range(agg.dependencyMap.external) \subseteq
                 UNION {Range(project[src[k].path].imports) : k \in ok}

\* a run in which a failed source file is followed by an analyzed one
C4_Witness ==
    \E i \in Runs : \E k \in 1..(Len(Results(i)) - 1) :
        /\ Failed(Results(i)[k].value)
        /\ ~Failed(Results(i)[k + 1].value)
        /\ history[i].agg.metrics.totalLinesOfCode > 0

(* C5: after every analyze run metrics.totalLinesOfCode is the sum of       *)
(* linesOfCode over the source files whose analysis succeeded, and 0 when   *)
(* the directory holds no analyzable source file.                           *)
C5_TotalLinesOfCode ==
    /\ \A i \in Runs :
         LET res == Results(i)
         IN  /\ history[i].agg.metrics.totalLinesOfCode =
                  SumSeq([k \in 1..Len(res) |->
                             IF Failed(res[k].value) THEN 0
                             ELSE res[k].value.linesOfCode])
             /\ ~history[i].threw =>
                  Range(ObjKeys(res)) =
                     {SourceEntries(i)[k].relativePath : k \in 1..Len(SourceEntries(i))}
             /\ SourceEntries(i) = <<>> => history[i].agg.metrics.totalLinesOfCode = 0
    /\ "metrics" \in DOMAIN disk =>
         /\ writtenBy["metrics"] \in Runs
         /\ disk.metrics = history[writtenBy["metrics"]].agg.metrics

\* a completed run with a failed file, an analyzed file and a config file
C5_Witness ==
    \E i \in Runs :
        /\ ~history[i].threw
        /\ \E k \in 1..Len(Results(i)) : Failed(Results(i)[k].value)
        /\ history[i].agg.metrics.totalLinesOfCode > 0
        /\ history[i].agg.metrics.configFiles # <<>>
        /\ disk.metrics.totalLinesOfCode = history[i].agg.metrics.totalLinesOfCode

RelativeImports(imports) == SelectSeq(imports, LAMBDA sp : sp[1] = ".")

(* C6: every import specifier of every analyzed source file that begins     *)
(* with '.' is appended to dependencyMap.internal under the importing       *)
(* file's relative path and is never in dependencyMap.external; every other *)
(* specifier is in dependencyMap.external and in no internal list.          *)
C6_ImportRouting ==
    \A i \in Runs :
        LET res == Results(i)
            dep == history[i].agg.dependencyMap
        IN  \A k \in 1..Len(res) :
                LET f == res[k].key
                    imports == res[k].value.imports
                IN  /\ ObjHas(dep.internal, f) <=> RelativeImports(imports) # <<>>
                    /\ ObjHas(dep.internal, f) =>
                          ObjGet(dep.internal, f) = RelativeImports(imports)
                    /\ \A sp \in Range(imports) :
                          IF sp[1] = "."
                          THEN sp \notin Range(dep.external)
                          ELSE /\ sp \in Range(dep.external)
                               /\ \A j \in 1..Len(dep.internal) :
                                     sp \notin Range(dep.internal[j].value)

\* a run that analyzed a file with a '..' import, a './' import and a bare one
C6_Witness ==
    \E i \in Runs : \E k \in 1..Len(Results(i)) :
        /\ RelUpA \in Range(Results(i)[k].value.imports)
        /\ Vue \in Range(Results(i)[k].value.imports)
        /\ \E j \in 1..Len(Results(i)) : RelB \in Range(Results(i)[j].value.imports)
        /\ Len(history[i].agg.dependencyMap.internal) = 2

(* C7: after every analyze run no string of dependencyMap.external is also  *)
(* a key of dependencyMap.internal.                                         *)
C7_ExternalNeverInternalKey ==
    \A i \in Runs :
        Range(history[i].agg.dependencyMap.external)
            \cap Range(ObjKeys(history[i].agg.dependencyMap.internal)) = {}

(* C7, amended: the keys of dependencyMap.internal are exactly the relative *)
(* paths of the analyzed files with at least one relative import; no string *)
(* of dependencyMap.external begins with '.', and one is a key of           *)
(* dependencyMap.internal only when it is spelled exactly like the relative *)
(* path of such a file.                                                     *)
C7_ExternalKeyOnlyBySpelling ==
    \A i \in Runs :
        LET res == Results(i)
            dep == history[i].agg.dependencyMap
            importers == {res[k].key : k \in {n \in 1..Len(res) :
                              RelativeImports(res[n].value.imports) # <<>>}}
        IN  /\ Range(ObjKeys(dep.internal)) = importers
            /\ \A e \in Range(dep.external) :
                  /\ e[1] # "."
                  /\ ObjHas(dep.internal, e) =>
                        \E k \in 1..Len(SourceEntries(i)) :
                            /\ SourceEntries(i)[k].relativePath = e
                            /\ \E sp \in Range(project[SourceEntries(i)[k].path].imports) :
                                  sp[1] = "."

\* a run after which an external specifier is also a key of internal
C7_Witness ==
    \E i \in Runs :
        /\ ~history[i].threw
        /\ \E e \in Range(history[i].agg.dependencyMap.external) :
              ObjHas(history[i].agg.dependencyMap.internal, e)

ExpectedId(k) ==
    <<"T", "-">>
        \o (IF k < 10 THEN <<"0", "0">> ELSE IF k < 100 THEN <<"0">> ELSE <<>>)
        \o String(k)

(* C8: in every backlog the k-th task has the identifier 'T-' followed by k *)
(* zero-padded to at least 3 digits, the identifiers are pairwise distinct, *)
(* and totalTasks is the number of tasks.                                   *)
C8_TaskIdsContiguous ==
    "backlog" \in DOMAIN disk =>
        LET tasks == disk.backlog.tasks
        IN  /\ disk.backlog.totalTasks = Len(tasks)
            /\ \A k \in 1..Len(tasks) : tasks[k].id = ExpectedId(k)
            /\ \A j, k \in 1..Len(tasks) : tasks[j].id = tasks[k].id => j = k

\* a backlog in which both rules fired
C8_Witness ==
    /\ "backlog" \in DOMAIN disk
    /\ Len(disk.backlog.tasks) = 2
    /\ disk.backlog.tasks[2].id = <<"T", "-", "0", "0", "2">>

AllPending(backlog) == \A k \in 1..Len(backlog.tasks) : backlog.tasks[k].status = "pending"

ResetStatus(tasks) == [k \in 1..Len(tasks) |-> [tasks[k] EXCEPT !.status = "pending"]]

-----------------------------------------------------------------------------
(* C11 *)

\* the positions of the tasks of the backlog on disk whose status is st
Positions(st) == {i \in 1..Len(disk.backlog.tasks) : disk.backlog.tasks[i].status = st}

\* the last command was `work` without --task, on a backlog that is there
WorkListed == out.cmd = "work" /\ out.task = <<>> /\ "backlog" \in DOMAIN disk

(* C11: `work` without --task lists exactly the pending tasks, in backlog   *)
(* order and no task of another status; when no task is pending it prints   *)
(* the completion message alone, with no listing and no prompt.             *)
C11_ListsPendingInOrder ==
    WorkListed =>
        IF Positions("pending") = {}
        THEN /\ out.kind = "completed"
             /\ out.exit = 0
             /\ DOMAIN out \cap {"listed", "prompt", "sources"} = {}
        ELSE /\ out.kind = "list"
             /\ "prompt" \notin DOMAIN out
             /\ Len(out.listed) = Cardinality(Positions("pending"))
             /\ \A k \in 1..Len(out.listed) :
                    \E i \in Positions("pending") :
                        /\ out.listed[k] = disk.backlog.tasks[i]
                        /\ Cardinality({j \in Positions("pending") : j < i}) = k - 1

\* a listing that leaves out a task that is done and shows the one still pending
C11_Witness ==
    /\ WorkListed
    /\ out.kind = "list"
    /\ Positions("done") # {}
    /\ Len(out.listed) < Len(disk.backlog.tasks)


-----------------------------------------------------------------------------
(* C12 *)

\* some task of the backlog on disk answers to the id given with --task
\* (ids are compared after toLowerCase, so "t-002" is an id of task T-002)
BacklogHasId(taskId) ==
    \E i \in 1..Len(disk.backlog.tasks) :
        toLowerCase(disk.backlog.tasks[i].id) = toLowerCase(taskId)

-----------------------------------------------------------------------------
(* C13 *)

\* the task of the backlog on disk that `work --task taskId` composes for
TaskFor(taskId) ==
    LET i == CHOOSE i \in 1..Len(disk.backlog.tasks) :
                /\ toLowerCase(disk.backlog.tasks[i].id) = toLowerCase(taskId)
                /\ \A j \in 1..(i - 1) :
                       toLowerCase(disk.backlog.tasks[j].id) # toLowerCase(taskId)
    IN  disk.backlog.tasks[i]

\* the last command was `work --task` with the id of a task of the backlog
WorkComposed ==
    /\ out.cmd = "work"
    /\ out.task # <<>>
    /\ "backlog" \in DOMAIN disk
    /\ BacklogHasId(out.task)

\* the files below the scan root whose root-relative path is file
UnderRoot(file) == {p \in DOMAIN project : joinPath(p) = file}

(* C13: when `work --task` composes a prompt, every source file the task    *)
(* references that is present under the scan root is embedded with its full *)
(* text, every referenced file that is missing is rendered as the           *)
(* "(Not Found)" marker, and a missing file never makes the command fail:   *)
(* the prompt is written in full, also when machine_context.json is absent. *)
C13_PromptEmbedsSources ==
    WorkComposed =>
        /\ out.kind = "prompt"
        /\ out.exit = 0
        /\ out.prompt = TaskFor(out.task).prompt
        /\ Len(out.sources) = Len(TaskFor(out.task).sourceFiles)
        /\ \A i \in 1..Len(out.sources) :
               LET file == TaskFor(out.task).sourceFiles[i]
               IN  /\ out.sources[i].file = file
                   /\ out.sources[i].found = (UnderRoot(file) # {})
                   /\ \A p \in UnderRoot(file) : out.sources[i].content = project[p]

\* the same, for the prompts composed while machine_context.json is there
C13_WithContext == ("context" \in DOMAIN disk) => C13_PromptEmbedsSources


-----------------------------------------------------------------------------
(* C14 *)

\* token occurs in content at offset i
OccursAt(content, token, i) ==
    /\ i + Len(token) <= Len(content)
    /\ SubSeq(content, i + 1, i + Len(token)) = token

\* the whole-word occurrences of a keyword: no word character next to it
WholeWordOccurrences(content, keyword) ==
    Cardinality({i \in 0..Len(content) :
        /\ OccursAt(content, keyword, i)
        /\ (i >= 1 => content[i] \notin WordChars)
        /\ (i + Len(keyword) < Len(content) => content[i + Len(keyword) + 1] \notin WordChars)})

\* the occurrences of an operator token, read left to right without overlap
RECURSIVE TokenOccurrences(_, _, _)
TokenOccurrences(content, token, i) ==
    IF i + Len(token) > Len(content) THEN 0
    ELSE IF OccursAt(content, token, i)
         THEN 1 + TokenOccurrences(content, token, i + Len(token))
         ELSE TokenOccurrences(content, token, i + 1)

RECURSIVE SumOfOccurrences(_, _)
SumOfOccurrences(content, k) ==
    IF k > Len(complexityKeywords) THEN 0
    ELSE (IF Head(complexityKeywords[k]) \in WordChars
          THEN WholeWordOccurrences(content, complexityKeywords[k])
          ELSE TokenOccurrences(content, complexityKeywords[k], 0))
         + SumOfOccurrences(content, k + 1)

(* C14: for every source text calculateComplexity returns 1 plus the sum,   *)
(* over the nine tokens if, else, for, while, case, catch, return, && and   *)
(* ||, of the occurrences of the token in the text (whole-word for the      *)
(* keywords, exact-token for the two operators); a text with none of the    *)
(* nine tokens has complexity 1.                                            *)
C14_ComplexityCountsTokens ==
    result.kind = "complexity" =>
        result.value = 1 + SumOfOccurrences(input.content, 1)

\* what the code adds for the keywords alone is their whole-word occurrences
C14_KeywordMatches ==
    result.kind = "complexity" =>
        \A k \in 1..7 :
            matchCount(input.content,
                       alternatives(patternSource(complexityKeywords[k]), <<>>), 0)
                = WholeWordOccurrences(input.content, complexityKeywords[k])


-----------------------------------------------------------------------------
(* C15 *)

\* the tree run i scanned, and the ignore fragments it scanned with
ScannedTree(i) == TreeOf(project, history[i].before, TRUE)
Fragments(i) == Range(history[i].ignore \o CLI_IGNORE)

\* fragment is a substring of name
HasFragment(name, fragment) ==
    \E k \in 0..(Len(name) - Len(fragment)) :
        SubSeq(name, k + 1, k + Len(fragment)) = fragment

\* the files of the tree the scan is to emit: no base name on the way from
\* the root to the file, the file's own included, holds an ignore fragment,
\* and the extension is on the allow-list whatever its case
Eligible(i) ==
    {p \in DOMAIN ScannedTree(i).files :
        /\ \A n \in 1..Len(p) : \A g \in Fragments(i) : ~HasFragment(p[n], g)
        /\ toLowerCase(extname(p[Len(p)])) \in SUPPORTED_EXTENSIONS}

Emitted(i) == history[i].inventory.files

(* C15: a scan emits a FileRecord for a file if and only if no ignore       *)
(* fragment is a substring of the file's base name or of the base name of a *)
(* directory between the root and the file, and the file's extension,       *)
(* compared case-insensitively, is on the allow-list; nothing below an      *)
(* ignored directory is emitted, and the relative paths are pairwise        *)
(* distinct.                                                                *)
C15_ScanEmitsEligibleFiles ==
    \A i \in Runs :
        /\ {Emitted(i)[k].path : k \in 1..Len(Emitted(i))} = Eligible(i)
        /\ \A k \in 1..Len(Emitted(i)) :
               Emitted(i)[k].relativePath = joinPath(Emitted(i)[k].path)
        /\ \A k, l \in 1..Len(Emitted(i)) :
               k # l => Emitted(i)[k].relativePath # Emitted(i)[l].relativePath

\* a scan with the fragment "ai" of a tree that holds C.JS (emitted),
\* notes.txt (extension not listed), node_modules/x.js (below an ignored
\* directory), src/main.ts (base name holds "ai") and the artifacts of an
\* earlier run (below ai-analysis)
C15_Witness ==
    \E i \in Runs :
        /\ history[i].ignore # <<>>
        /\ {PathUpper, PathNotes, PathDep, PathMain, ArtifactPath("inventory")}
                \subseteq DOMAIN ScannedTree(i).files
        /\ PathUpper \in Eligible(i)
        /\ Eligible(i) \cap {PathNotes, PathDep, PathMain, ArtifactPath("inventory")} = {}
        /\ Len(Emitted(i)) >= 2


-----------------------------------------------------------------------------
(* C16 *)

(* C16: aggregation is a commutative reduction over the inventory: for      *)
(* every set of file records, folding the per-file results in any two       *)
(* orders gives the same totalLinesOfCode, the same totalComplexity, the    *)
(* same hasTests, the same frameworks as a set and the same external        *)
(* dependencies as a set; first-seen order is all that may differ.  A fold  *)
(* that the exception of a config file ends has no aggregate in either      *)
(* order.                                                                   *)
C16_AggregationCommutes ==
    result.kind = "folds" =>
        /\ result.first.threw = result.second.threw
        /\ ~result.first.threw =>
            /\ result.first.metrics.totalLinesOfCode = result.second.metrics.totalLinesOfCode
            /\ result.first.metrics.totalComplexity = result.second.metrics.totalComplexity
            /\ result.first.metrics.hasTests = result.second.metrics.hasTests
            /\ Range(result.first.metrics.frameworks) = Range(result.second.metrics.frameworks)
            /\ Range(result.first.dependencyMap.external)
                    = Range(result.second.dependencyMap.external)

\* two folds of three files or more, one of them with tests and not the
\* last in both orders, whose first-seen order of frameworks differs
C16_Witness ==
    /\ result.kind = "folds"
    /\ ~result.first.threw
    /\ Len(input.first) >= 3
    /\ result.first.metrics.hasTests
    /\ result.first.metrics.frameworks # result.second.metrics.frameworks
    /\ result.first.metrics.totalComplexity > 0
    /\ result.first.dependencyMap.external # <<>>


-----------------------------------------------------------------------------
(* C17 *)

(* C17: `work` and `status` are read-only: whatever their outcome (listing, *)
(* completion message, prompt, summary, "no analysis", fatal exit), they    *)
(* leave the artifacts on disk, the status of every task included, and the  *)
(* scanned files as they were; of the commands only `analyze` writes        *)
(* artifacts.                                                               *)
C17_WorkStatusReadOnly ==
    [][/\ out'.cmd \in {"work", "status"} =>
            (disk' = disk /\ project' = project /\ dirMade' = dirMade)
       /\ (disk' # disk /\ out'.cmd # "edit") =>
            (out'.cmd = "analyze" /\ runs' = runs + 1)]_vars

\* a prompt composed for a task that is still pending afterwards, from a
\* backlog in which another task is done
C17_Witness ==
    /\ WorkComposed
    /\ out.kind = "prompt"
    /\ TaskFor(out.task).status = "pending"
    /\ Positions("done") # {}

=============================================================================
